---------------------------- MODULE Spec2Model ----------------------------
(***************************************************************************)
(* Model of the CLI chatbot (src/src/chatbot.py, history.py, context.py,   *)
(* gemini.py): the history store, the session bootstrap and the chat loop. *)
(*                                                                         *)
(* Text is modelled as a sequence of one-character strings, so that        *)
(* str.lower() and int() are computed character by character.              *)
(* A file is a record [kind, data]: kind "absent" (no such file),          *)
(* "corrupt" (text that json.load rejects, the empty file included) or     *)
(* "json" (a parseable document whose value is data).                      *)
(***************************************************************************)
EXTENDS Integers, Sequences, FiniteSets, TLC

VARIABLES
    pc,         \* position of start_chatbot
    exitCode,   \* process exit status, -1 while the process runs
    exc,        \* exception that left start_chatbot uncaught, "none" otherwise
    histFile,   \* history.json
    ctxFile,    \* contexts.json
    cfgFile,    \* config.json
    config,     \* final_config of load_configuration
    history,    \* local variable history of start_chatbot (the working log)
    contexts,   \* local variable contexts of start_chatbot
    chat,       \* message list the chat session was started with
    inp,        \* last line returned by console.input
    reply,      \* response.text of the last successful model call
    out,        \* last line printed on the console
    remote,     \* outcome of the last call to the model collaborator
    resets,     \* number of delete_history calls
    appends,    \* number of save_chat_to_history calls
    calls,      \* number of chat.send_message calls
    faults,     \* number of history writes that failed
    turns,      \* number of prompts accepted by the chat loop
    expected,   \* store client: the log it started from, then what it appended
    readBack    \* store client: result of its last get_history call

vars == <<pc, exitCode, exc, histFile, ctxFile, cfgFile, config, history,
          contexts, chat, inp, reply, out, remote, resets, appends, calls,
          faults, turns, expected, readBack>>

storeVars == <<expected, readBack>>

---------------------------------------------------------------------------
(* Bounds *)

MaxLog == 2       \* longest history.json the process starts from
MaxCtx == 3       \* most entries of contexts.json
MaxTurns == 2     \* most prompts sent in one session
MaxFaults == 1    \* most failing history writes in one run
MaxAppends == 3   \* most appends of the history store client

---------------------------------------------------------------------------
(* Text *)

Upper == <<"A","B","C","D","E","F","G","H","I","J","K","L","M",
           "N","O","P","Q","R","S","T","U","V","W","X","Y","Z">>
LowerLetters == <<"a","b","c","d","e","f","g","h","i","j","k","l","m",
                  "n","o","p","q","r","s","t","u","v","w","x","y","z">>
Digits == <<"0","1","2","3","4","5","6","7","8","9">>

LowerChar(c) ==
    IF \E i \in 1..Len(Upper) : Upper[i] = c
    THEN LowerLetters[CHOOSE i \in 1..Len(Upper) : Upper[i] = c]
    ELSE c

\* str.lower()
Lower(s) == [i \in 1..Len(s) |-> LowerChar(s[i])]

IsDigit(c) == \E i \in 1..Len(Digits) : Digits[i] = c
DigitVal(c) == (CHOOSE i \in 1..Len(Digits) : Digits[i] = c) - 1

RECURSIVE Strip(_)
\* str.strip() of blanks, as int() applies it
Strip(s) ==
    IF s = <<>> THEN s
    ELSE IF Head(s) = " " THEN Strip(Tail(s))
    ELSE IF s[Len(s)] = " " THEN Strip(SubSeq(s, 1, Len(s) - 1))
    ELSE s

RECURSIVE DigitsVal(_, _)
DigitsVal(s, acc) ==
    IF s = <<>> THEN acc ELSE DigitsVal(Tail(s), 10 * acc + DigitVal(Head(s)))

\* int(text): [ok |-> FALSE] stands for ValueError
ParseInt(text) ==
    LET s == Strip(text)
        signed == s # <<>> /\ Head(s) \in {"+", "-"}
        body == IF signed THEN Tail(s) ELSE s
    IN  IF body # <<>> /\ \A i \in 1..Len(body) : IsDigit(body[i])
        THEN [ok |-> TRUE,
              val |-> IF signed /\ Head(s) = "-"
                      THEN 0 - DigitsVal(body, 0) ELSE DigitsVal(body, 0)]
        ELSE [ok |-> FALSE, val |-> 0]

EXIT_TOKEN == <<"!","e","x","i","t">>

---------------------------------------------------------------------------
(* Files and JSON values *)

Msg(role, content) == [role |-> role, parts |-> <<content>>]

Absent == [kind |-> "absent", data |-> <<>>]
Corrupt == [kind |-> "corrupt", data |-> <<>>]
json_dump(value) == [kind |-> "json", data |-> value]

WriteOutcomes == {"ok", "open_failed", "write_failed"}

\* history.get_history
get_history(f) == IF f.kind = "json" THEN f.data ELSE <<>>

\* faulty variant of delete_history: the write is skipped
delete_history_skip(f, outcome) == f

\* history.delete_history: the file after the call
delete_history(f, outcome) ==
    CASE outcome = "ok" -> json_dump(<<>>)
      [] outcome = "open_failed" -> f
      [] outcome = "write_failed" -> Corrupt

\* faulty variant of save_chat_to_history: the new entry is put first
save_chat_to_history_front(f, role, content, outcome) ==
    LET loaded == IF f.kind = "json" THEN f.data ELSE <<>>
    IN  CASE outcome = "ok" -> json_dump(<<Msg(role, content)>> \o loaded)
          [] outcome = "open_failed" -> f
          [] outcome = "write_failed" -> Corrupt

\* history.save_chat_to_history: the file after the call
save_chat_to_history(f, role, content, outcome) ==
    LET loaded == IF f.kind = "json" THEN f.data ELSE <<>>
        updated == Append(loaded, Msg(role, content))
    IN  CASE outcome = "ok" -> json_dump(updated)
          [] outcome = "open_failed" -> f
          [] outcome = "write_failed" -> Corrupt

NoneValue == [isNone |-> TRUE, items |-> <<>>]
ListValue(items) == [isNone |-> FALSE, items |-> items]

\* context.get_contexts
get_contexts(f) == IF f.kind = "json" THEN ListValue(f.data) ELSE NoneValue

\* "if contexts:" of start_chatbot
Truthy(value) == ~value.isNone /\ value.items # <<>>

\* default_config of load_configuration; temperature and top_p in tenths
default_config == [temperature |-> 10, max_tokens |-> 200, top_k |-> 40, top_p |-> 9]
ConfigKeys == {"temperature", "max_tokens", "top_k", "top_p"}

\* {**default_config, **config}
MergeConfig(defaults, loaded) ==
    [k \in ConfigKeys |-> IF k \in DOMAIN loaded THEN loaded[k] ELSE defaults[k]]

---------------------------------------------------------------------------
(* Inputs *)

T(c) == <<c>>

InitialMessages == {Msg("user", <<"h","i">>), Msg("model", <<"o","k">>)}
InitialLogs == UNION {[1..n -> InitialMessages] : n \in 0..MaxLog}
HistoryFiles == {Absent, Corrupt} \cup {json_dump(l) : l \in InitialLogs}

ContextText(i) == <<"P", Digits[i + 1]>>
ContextList(n) == [i \in 1..n |-> [name |-> Digits[i + 1], context |-> ContextText(i)]]
ContextFiles == {Absent, Corrupt} \cup {json_dump(ContextList(n)) : n \in 0..MaxCtx}

\* temperature and top_p are written in tenths
ConfigObjects == {<<>>,
                  [max_tokens |-> 100, top_k |-> 1, verbose |-> 1],
                  [temperature |-> 2, max_tokens |-> 50, top_k |-> 3, top_p |-> 5]}
ConfigFiles == {Absent, Corrupt} \cup {json_dump(o) : o \in ConfigObjects}

ResumeInputs == {<<>>, T("y"), T("Y"), T("n"), T("N"), T("x"), <<"n","o">>}
PersonaInputs == {<<>>, T("x"), T("0"), T("1"), T("2"), T("3"), T("4"), T("5"),
                  <<"-","1">>, <<" ","2">>, <<"2","x">>}
ChatInputs == {<<>>, EXIT_TOKEN, <<"!","E","x","I","t">>, <<"!","e","x","i","t"," ">>,
               <<"h","i">>}
Replies == {<<"o","k">>, <<>>}

---------------------------------------------------------------------------
(* Program *)

Init ==
    /\ pc = "load_env_vars"
    /\ exitCode = -1
    /\ exc = "none"
    /\ histFile \in HistoryFiles
    /\ ctxFile \in ContextFiles
    /\ cfgFile \in ConfigFiles
    /\ config = default_config
    /\ history = <<>>
    /\ contexts = NoneValue
    /\ chat = <<>>
    /\ inp = <<>>
    /\ reply = <<>>
    /\ out = ""
    /\ remote = "idle"
    /\ resets = 0
    /\ appends = 0
    /\ calls = 0
    /\ faults = 0
    /\ turns = 0
    /\ expected = <<>>
    /\ readBack = <<>>

\* faulty variant of Fatal: the error is printed and the caller carries on
FatalContinue(message) ==
    /\ out' = message
    /\ exitCode' = exitCode
    /\ pc' = IF pc = "send_message" THEN "prompt" ELSE pc

\* console.print(error); sys.exit(1)
Fatal(message) ==
    /\ out' = message
    /\ exitCode' = 1
    /\ pc' = "exited"

\* outcomes a history write may have, given the failures already spent
Outcomes == IF faults < MaxFaults THEN WriteOutcomes ELSE {"ok"}
Failed(outcome) == IF outcome = "ok" THEN 0 ELSE 1

\* chatbot.load_env_vars
LoadEnvVars ==
    /\ pc = "load_env_vars"
    /\ \E present \in BOOLEAN :
          IF present
          THEN /\ pc' = "load_configuration"
               /\ UNCHANGED <<out, exitCode>>
          ELSE Fatal("Error loading environment variables")
    /\ UNCHANGED <<exc, histFile, ctxFile, cfgFile, config, history, contexts,
                   chat, inp, reply, remote, resets, appends, calls, faults, turns>>
    /\ UNCHANGED storeVars

\* chatbot.load_configuration
LoadConfiguration ==
    /\ pc = "load_configuration"
    /\ CASE cfgFile.kind = "absent" ->
              /\ config' = MergeConfig(default_config, default_config)
              /\ out' = "Configuration file not found. Using default values."
              /\ pc' = "init_gemini"
              /\ UNCHANGED <<exc, exitCode>>
         [] cfgFile.kind = "corrupt" ->
              /\ exc' = "JSONDecodeError"
              /\ exitCode' = 1
              /\ pc' = "exited"
              /\ out' = "Traceback"
              /\ UNCHANGED config
         [] cfgFile.kind = "json" ->
              /\ config' = MergeConfig(default_config, cfgFile.data)
              /\ pc' = "init_gemini"
              /\ UNCHANGED <<exc, exitCode, out>>
    /\ UNCHANGED <<histFile, ctxFile, cfgFile, history, contexts, chat, inp,
                   reply, remote, resets, appends, calls, faults, turns>>
    /\ UNCHANGED storeVars

\* gemini.init_gemini
InitGemini ==
    /\ pc = "init_gemini"
    /\ \E raised \in BOOLEAN :
          IF raised
          THEN /\ remote' = "error"
               /\ Fatal("Error initializing Gemini")
          ELSE /\ remote' = "ok"
               /\ pc' = "get_history"
               /\ UNCHANGED <<out, exitCode>>
    /\ UNCHANGED <<exc, histFile, ctxFile, cfgFile, config, history, contexts,
                   chat, inp, reply, resets, appends, calls, faults, turns>>
    /\ UNCHANGED storeVars

\* start_chatbot, lines 82-84 and the test of line 98
LoadHistory ==
    /\ pc = "get_history"
    /\ history' = get_history(histFile)
    /\ IF history' # <<>>
       THEN /\ out' = "Do you want to continue the previous chat session? (y/n)"
            /\ pc' = "await_resume"
       ELSE /\ pc' = "select_context"
            /\ UNCHANGED out
    /\ UNCHANGED <<exitCode, exc, histFile, ctxFile, cfgFile, config, contexts,
                   chat, inp, reply, remote, resets, appends, calls, faults, turns>>
    /\ UNCHANGED storeVars

\* faulty variant of IsNo: the answer is compared as typed
IsNoExact(response) == response = <<"n">>

\* response.lower() == "n"
IsNo(response) == Lower(response) = <<"n">>

\* response.lower() == "y"
IsYes(response) == Lower(response) = <<"y">>

\* start_chatbot, lines 85-95 (one pass of the loop) and the test of line 98
ResumeChoice ==
    /\ pc = "await_resume"
    /\ \E response \in ResumeInputs, outcome \in Outcomes :
          /\ inp' = response
          /\ IF IsNo(response)
             THEN /\ histFile' = delete_history(histFile, outcome)
                  /\ faults' = faults + Failed(outcome)
                  /\ resets' = resets + 1
                  /\ out' = IF outcome = "ok" THEN out ELSE "Error deleting history"
                  /\ history' = <<>>
                  /\ pc' = "select_context"
             ELSE IF IsYes(response)
             THEN /\ out' = "Continuing previous chat session..."
                  /\ pc' = IF history = <<>> THEN "select_context" ELSE "start_chat"
                  /\ UNCHANGED <<histFile, faults, resets, history>>
             ELSE /\ out' = "Invalid response. Please enter 'y' or 'n'."
                  /\ UNCHANGED <<histFile, faults, resets, history, pc>>
    /\ UNCHANGED <<exitCode, exc, ctxFile, cfgFile, config, contexts, chat,
                   reply, remote, appends, calls, turns>>
    /\ UNCHANGED storeVars

\* start_chatbot, lines 99-103
SelectContext ==
    /\ pc = "select_context"
    /\ contexts' = get_contexts(ctxFile)
    /\ IF Truthy(contexts')
       THEN /\ out' = "Who do you want to chat with?"
            /\ pc' = "await_persona"
       ELSE /\ pc' = "start_chat"
            /\ UNCHANGED out
    /\ UNCHANGED <<exitCode, exc, histFile, ctxFile, cfgFile, config, history,
                   chat, inp, reply, remote, resets, appends, calls, faults, turns>>
    /\ UNCHANGED storeVars

\* faulty variant of ContextIdx: the menu number is used as the index
ContextIdxRaw(number) == number

\* context_idx = int(...) - 1
ContextIdx(number) == number - 1

ValidIdx(idx, items) == 0 <= idx /\ idx < Len(items)

\* items[idx] of a Python list, idx in range(-len, len)
PyIndex(items, idx) == IF idx < 0 THEN items[Len(items) + idx + 1] ELSE items[idx + 1]

\* faulty variant of SeedHistory: the persona is seeded as a model message
SeedHistoryModel(text) == <<Msg("model", text)>>

\* history = [{"role": "user", "parts": [selected_context["context"]]}]
SeedHistory(text) == <<Msg("user", text)>>

\* start_chatbot, lines 104-115 (one pass of the loop)
PersonaChoice ==
    /\ pc = "await_persona"
    /\ \E line \in PersonaInputs, outcome \in Outcomes :
          LET parsed == ParseInt(line)
              context_idx == ContextIdx(parsed.val)
          IN  /\ inp' = line
              /\ IF ~parsed.ok
                 THEN /\ out' = "Invalid input. Please enter a number."
                      /\ UNCHANGED <<history, histFile, appends, faults, pc>>
                 ELSE IF ~ValidIdx(context_idx, contexts.items)
                 THEN /\ out' = "Invalid context index. Please try again."
                      /\ UNCHANGED <<history, histFile, appends, faults, pc>>
                 ELSE LET selected_context == PyIndex(contexts.items, context_idx)
                      IN  /\ history' = SeedHistory(selected_context.context)
                          /\ histFile' = save_chat_to_history(histFile, "user",
                                             selected_context.context, outcome)
                          /\ appends' = appends + 1
                          /\ faults' = faults + Failed(outcome)
                          /\ out' = IF outcome = "ok" THEN out
                                    ELSE "Error saving context to history"
                          /\ pc' = "start_chat"
    /\ UNCHANGED <<exitCode, exc, ctxFile, cfgFile, config, contexts, chat,
                   reply, remote, resets, calls, turns>>
    /\ UNCHANGED storeVars

\* gemini.start_chat and start_chatbot, lines 118-120
StartChat ==
    /\ pc = "start_chat"
    /\ \E raised \in BOOLEAN :
          IF raised
          THEN /\ remote' = "error"
               /\ Fatal("Error starting chat session")
               /\ UNCHANGED chat
          ELSE /\ remote' = "ok"
               /\ chat' = history
               /\ out' = "Hi, how can I assist you today?"
               /\ pc' = "prompt"
               /\ UNCHANGED exitCode
    /\ UNCHANGED <<exc, histFile, ctxFile, cfgFile, config, history, contexts,
                   inp, reply, resets, appends, calls, faults, turns>>
    /\ UNCHANGED storeVars

\* faulty variant of IsExit: the token is matched as typed
IsExitExact(prompt) == prompt = EXIT_TOKEN

\* prompt.lower() == "!exit"
IsExit(prompt) == Lower(prompt) = EXIT_TOKEN

\* faulty variant of NonEmpty: every line is sent
NonEmptyAlways(prompt) == TRUE

\* "if prompt:" of the chat loop
NonEmpty(prompt) == prompt # <<>>

\* start_chatbot, lines 122-131 (one pass of the loop up to the model call)
Prompt ==
    /\ pc = "prompt"
    /\ \E prompt \in ChatInputs, outcome \in Outcomes :
          /\ inp' = prompt
          /\ IF IsExit(prompt)
             THEN /\ out' = "Goodbye!"
                  /\ exitCode' = 0
                  /\ pc' = "exited"
                  /\ UNCHANGED <<histFile, appends, faults, turns>>
             ELSE IF NonEmpty(prompt)
             THEN /\ turns < MaxTurns
                  /\ histFile' = save_chat_to_history(histFile, "user", prompt, outcome)
                  /\ appends' = appends + 1
                  /\ faults' = faults + Failed(outcome)
                  /\ turns' = turns + 1
                  /\ out' = IF outcome = "ok" THEN out
                            ELSE "Error saving prompt to history"
                  /\ pc' = "send_message"
                  /\ UNCHANGED exitCode
             ELSE UNCHANGED <<out, exitCode, pc, histFile, appends, faults, turns>>
    /\ UNCHANGED <<exc, ctxFile, cfgFile, config, history, contexts, chat,
                   reply, remote, resets, calls>>
    /\ UNCHANGED storeVars

\* faulty variant of SendMessage: the reply is rendered but never saved
SendMessageUnsaved ==
    /\ pc = "send_message"
    /\ calls' = calls + 1
    /\ \/ /\ remote' = "error"
          /\ Fatal("Error during chat interaction")
          /\ UNCHANGED reply
       \/ \E text \in Replies :
             /\ remote' = "ok"
             /\ reply' = text
             /\ out' = "Panel"
             /\ pc' = "prompt"
             /\ UNCHANGED exitCode
    /\ UNCHANGED <<exc, histFile, appends, faults, ctxFile, cfgFile, config,
                   history, contexts, chat, inp, resets, turns>>
    /\ UNCHANGED storeVars

\* gemini.send_message
SendMessage ==
    /\ pc = "send_message"
    /\ calls' = calls + 1
    /\ \/ /\ remote' = "error"
          /\ Fatal("Error during chat interaction")
          /\ UNCHANGED <<reply, histFile, appends, faults>>
       \/ \E text \in Replies, outcome \in Outcomes :
             /\ remote' = "ok"
             /\ reply' = text
             /\ histFile' = save_chat_to_history(histFile, "model", text, outcome)
             /\ appends' = appends + 1
             /\ faults' = faults + Failed(outcome)
             /\ out' = "Panel"
             /\ pc' = "prompt"
             /\ UNCHANGED exitCode
    /\ UNCHANGED <<exc, ctxFile, cfgFile, config, history, contexts, chat,
                   inp, resets, turns>>
    /\ UNCHANGED storeVars

Next ==
    \/ LoadEnvVars
    \/ LoadConfiguration
    \/ InitGemini
    \/ LoadHistory
    \/ ResumeChoice
    \/ SelectContext
    \/ PersonaChoice
    \/ StartChat
    \/ Prompt
    \/ SendMessage

Spec == Init /\ [][Next]_vars

---------------------------------------------------------------------------
(* The history store on its own: a client that starts from any history.json *)
(* and calls save_chat_to_history, delete_history and get_history in any    *)
(* order.                                                                   *)

StoreRoles == {"user", "model"}
StoreContents == {<<"a">>, <<"b", "c">>}

StoreInit ==
    /\ pc = "store_start"
    /\ exitCode = -1
    /\ exc = "none"
    /\ histFile \in HistoryFiles
    /\ ctxFile = Absent
    /\ cfgFile = Absent
    /\ config = default_config
    /\ history = <<>>
    /\ contexts = NoneValue
    /\ chat = <<>>
    /\ inp = <<>>
    /\ reply = <<>>
    /\ out = ""
    /\ remote = "idle"
    /\ resets = 0
    /\ appends = 0
    /\ calls = 0
    /\ faults = 0
    /\ turns = 0
    /\ expected = IF histFile.kind = "json" THEN histFile.data ELSE <<>>
    /\ readBack = <<>>

StorePositions == {"store_start", "store_appended", "store_reset", "store_read"}

StoreAppend ==
    /\ pc \in StorePositions
    /\ appends < MaxAppends
    /\ \E role \in StoreRoles, content \in StoreContents, outcome \in Outcomes :
          /\ histFile' = save_chat_to_history(histFile, role, content, outcome)
          /\ faults' = faults + Failed(outcome)
          /\ out' = IF outcome = "ok" THEN out ELSE "Error saving prompt to history"
          /\ expected' = Append(expected, Msg(role, content))
    /\ appends' = appends + 1
    /\ pc' = "store_appended"
    /\ UNCHANGED <<exitCode, exc, ctxFile, cfgFile, config, history, contexts,
                   chat, inp, reply, remote, resets, calls, turns, readBack>>

StoreReset ==
    /\ pc \in StorePositions
    /\ \E outcome \in Outcomes :
          /\ histFile' = delete_history(histFile, outcome)
          /\ faults' = faults + Failed(outcome)
          /\ out' = IF outcome = "ok" THEN out ELSE "Error deleting history"
    /\ expected' = <<>>
    /\ pc' = "store_reset"
    /\ UNCHANGED <<exitCode, exc, ctxFile, cfgFile, config, history, contexts,
                   chat, inp, reply, remote, resets, appends, calls, turns,
                   readBack>>

StoreRead ==
    /\ pc \in StorePositions
    /\ readBack' = get_history(histFile)
    /\ pc' = "store_read"
    /\ UNCHANGED <<exitCode, exc, histFile, ctxFile, cfgFile, config, history,
                   contexts, chat, inp, reply, out, remote, resets, appends,
                   calls, faults, turns, expected>>

StoreNext == StoreAppend \/ StoreReset \/ StoreRead

StoreSpec == StoreInit /\ [][StoreNext]_vars

---------------------------------------------------------------------------
(* Properties *)

IsPrefix(a, b) == Len(a) <= Len(b) /\ SubSeq(b, 1, Len(a)) = a

\* C1: starting from any persisted log L, after appending m1..mn with
\* save_chat_to_history (every write completing), get_history returns L
\* followed by m1..mn in the order appended, each as {role, parts: [content]}.
C1_AppendOrderFidelity ==
    /\ faults = 0 => get_history(histFile) = expected
    /\ pc = "store_read" /\ faults = 0 => readBack = expected

C1_Witness ==
    /\ pc = "store_read"
    /\ faults = 0
    /\ appends = 3
    /\ Len(readBack) = 5
    /\ readBack[3] # readBack[4]
    /\ readBack = expected

\* C2 as stated: delete_history followed by get_history yields the empty
\* sequence whatever the file held and however the delete_history call ended.
C2_ResetThenReadAlwaysEmpty ==
    [][pc = "store_reset" /\ pc' = "store_read" => readBack' = <<>>]_vars

\* C2 amended: delete_history that reports no error leaves the file holding
\* [], and the next get_history returns the empty sequence, whatever the file
\* held before; when it reports an error the file is either unchanged or
\* truncated, and the next get_history returns the prior log or the empty one.
C2_ResetThenRead ==
    [][/\ pc' = "store_reset" /\ faults' = faults => histFile' = json_dump(<<>>)
       /\ pc' = "store_reset" /\ faults' # faults =>
              /\ out' = "Error deleting history"
              /\ histFile' \in {histFile, Corrupt}
       /\ pc = "store_reset" /\ pc' = "store_read" /\ out # "Error deleting history"
              => readBack' = <<>>]_vars

C2_Witness ==
    /\ pc = "store_read"
    /\ faults = 0
    /\ appends = 2
    /\ expected = <<>>
    /\ readBack = <<>>
    /\ histFile = json_dump(<<>>)

\* C3: at the resume prompt the working log is the persisted, non-empty log;
\* "y" or "Y" keeps both, calls no delete_history and goes on to start_chat
\* without a persona prompt; "n" or "N" calls delete_history, empties the
\* working log and goes on to the persona selection; any other line prints the
\* re-prompt and changes neither log nor the position.
C3_ResumeChoice ==
    [][pc = "await_resume" =>
         /\ history = get_history(histFile)
         /\ history # <<>>
         /\ inp' \in {<<"y">>, <<"Y">>} =>
                /\ history' = history
                /\ histFile' = histFile
                /\ resets' = resets
                /\ pc' = "start_chat"
         /\ inp' \in {<<"n">>, <<"N">>} =>
                /\ resets' = resets + 1
                /\ history' = <<>>
                /\ pc' = "select_context"
                /\ faults' = faults => histFile' = json_dump(<<>>)
         /\ inp' \notin {<<"y">>, <<"Y">>, <<"n">>, <<"N">>} =>
                /\ pc' = "await_resume"
                /\ out' = "Invalid response. Please enter 'y' or 'n'."
                /\ history' = history
                /\ histFile' = histFile
                /\ resets' = resets]_vars

C3_Witness ==
    /\ pc = "start_chat"
    /\ inp = <<"Y">>
    /\ out = "Continuing previous chat session..."
    /\ resets = 0
    /\ Len(history) = 2
    /\ history = get_history(histFile)

\* C4: with n > 0 personas and an empty working log, a line that is not a
\* number or is a number outside 1..n is rejected with a re-prompt and no
\* change to history.json; a number k in 1..n seeds the working log with the
\* single user message of persona k, calls save_chat_to_history once (the only
\* call of the bootstrap) and goes on to start_chat.  With no contexts.json, a
\* corrupt one or an empty list there is no prompt, no append and an empty
\* working log at start_chat.
C4_PersonaSelection ==
    [][/\ pc = "await_persona" =>
            LET parsed == ParseInt(inp')
                n == Len(contexts.items)
            IN  /\ history = <<>>
                /\ n > 0
                /\ appends = 0
                /\ IF parsed.ok /\ 1 <= parsed.val /\ parsed.val <= n
                   THEN /\ history' = <<Msg("user", ContextText(parsed.val))>>
                        /\ appends' = 1
                        /\ pc' = "start_chat"
                        /\ faults' = faults =>
                              get_history(histFile') =
                                  Append(get_history(histFile), history'[1])
                   ELSE /\ pc' = "await_persona"
                        /\ out' \in {"Invalid input. Please enter a number.",
                                     "Invalid context index. Please try again."}
                        /\ histFile' = histFile
                        /\ history' = history
                        /\ appends' = appends
       /\ pc = "select_context" =>
            IF ctxFile.kind = "json" /\ ctxFile.data # <<>>
            THEN pc' = "await_persona" /\ histFile' = histFile
            ELSE /\ pc' = "start_chat"
                 /\ out' = out
                 /\ history' = <<>>
                 /\ appends' = 0
                 /\ histFile' = histFile]_vars

C4_Witness ==
    /\ pc = "start_chat"
    /\ Len(contexts.items) = 3
    /\ inp = <<"2">>
    /\ history = <<Msg("user", <<"P", "2">>)>>
    /\ histFile = json_dump(history)
    /\ appends = 1

\* C5 as stated: an absent or syntactically invalid history, context or
\* config file never lets an exception leave the program, and is read as the
\* empty log, as no context list, and as the default configuration.
C5_ParseErrorsNeverFatal ==
    /\ exc = "none"
    /\ pc \notin {"load_env_vars", "load_configuration"} /\ cfgFile.kind # "json"
          => config = default_config
    /\ pc = "await_persona" => ctxFile.kind = "json"
    /\ pc = "await_resume" => histFile.kind = "json"
    /\ pc = "select_context" /\ resets = 0 /\ histFile.kind # "json" => history = <<>>

\* C6: when the model collaborator raises in init_gemini, start_chat or
\* send_message, the error is printed, the process exits with status 1 and
\* history.json is left as it was; from then on nothing more happens: no input
\* is read, no call is retried, no message is appended.
C6_RemoteFailureFatal ==
    [][/\ remote # "error"
       /\ remote' = "error" =>
            /\ pc' = "exited"
            /\ exitCode' = 1
            /\ out' = CASE pc = "init_gemini" -> "Error initializing Gemini"
                        [] pc = "start_chat" -> "Error starting chat session"
                        [] pc = "send_message" -> "Error during chat interaction"
            /\ histFile' = histFile
            /\ appends' = appends
            /\ inp' = inp]_vars

C6_Witness ==
    /\ remote = "error"
    /\ pc = "exited"
    /\ exitCode = 1
    /\ out = "Error during chat interaction"
    /\ calls = 2
    /\ appends = 3
    /\ faults = 0
    /\ Len(get_history(histFile)) = 3
    /\ get_history(histFile)[3].role = "user"

\* C7: an empty line at the chat prompt changes neither history.json nor the
\* number of saves, makes no model call, and leaves the loop at the prompt.
C7_EmptyInputNoOp ==
    [][pc = "prompt" /\ inp' = <<>> =>
         /\ histFile' = histFile
         /\ appends' = appends
         /\ calls' = calls
         /\ remote' = remote
         /\ turns' = turns
         /\ pc' = "prompt"]_vars

C7_Witness ==
    /\ pc = "prompt"
    /\ inp = <<>>
    /\ turns = 1
    /\ calls = 1

\* C8: a line that is "!exit" up to letter case ends the chat loop with the
\* farewell and exit status 0; the line is not saved and not sent, and
\* history.json is what it was before the line was read.
C8_ExitCommand ==
    [][pc = "prompt" /\ inp' \in {<<"!","e","x","i","t">>, <<"!","E","x","I","t">>} =>
         /\ pc' = "exited"
         /\ exitCode' = 0
         /\ out' = "Goodbye!"
         /\ histFile' = histFile
         /\ appends' = appends
         /\ calls' = calls
         /\ exc' = "none"]_vars

C8_Witness ==
    /\ pc = "exited"
    /\ exitCode = 0
    /\ inp = <<"!","E","x","I","t">>
    /\ out = "Goodbye!"
    /\ turns = 1

\* C9: in a session whose history writes complete, a non-empty, non-exit line
\* p is saved as {user, [p]} before the model is called; the reply is saved as
\* {model, [reply]} only after the call returned, right behind the user
\* message of its turn; a failed call saves nothing.  So history.json only
\* grows during the session, by one (user, model) pair per completed turn.
C9_TurnOrdering ==
    [][/\ pc = "prompt" /\ pc' = "send_message" /\ faults' = 0 =>
            /\ get_history(histFile') = Append(get_history(histFile), Msg("user", inp'))
            /\ calls' = calls
       /\ pc = "send_message" /\ pc' = "prompt" /\ faults' = 0 =>
            /\ get_history(histFile') = Append(get_history(histFile), Msg("model", reply'))
            /\ get_history(histFile)[Len(get_history(histFile))] = Msg("user", inp)
            /\ calls' = calls + 1
       /\ pc = "send_message" /\ remote' = "error" => histFile' = histFile
       /\ pc \in {"prompt", "send_message"} /\ faults' = 0 =>
            IsPrefix(get_history(histFile), get_history(histFile'))
       /\ pc' \in {"prompt", "send_message"} /\ faults' = 0 =>
            LET log == get_history(histFile')
                base == Len(chat')
                pending == IF pc' = "send_message" THEN 1 ELSE 0
            IN  /\ Len(log) = base + 2 * turns' - pending
                /\ calls' = turns' - pending
                /\ \A i \in (base + 1)..Len(log) :
                      log[i].role = IF (i - base) % 2 = 1 THEN "user" ELSE "model"]_vars

C9_Witness ==
    /\ pc = "prompt"
    /\ turns = 2
    /\ calls = 2
    /\ faults = 0
    /\ Len(chat) = 1
    /\ Len(get_history(histFile)) = 5
    /\ get_history(histFile)[4] = Msg("user", <<"h","i">>)
    /\ get_history(histFile)[5] = Msg("model", <<"o","k">>)

=============================================================================
